---------------------------- MODULE Spec2Model ----------------------------
(***************************************************************************)
(* GlicoCerto (src/server.js): the meal-to-dose pipeline of POST /api/chat *)
(* and POST /api/chat-image, with the numeric parsers and the macro        *)
(* extractors it is built from.                                            *)
(*                                                                         *)
(* JavaScript numbers are modelled as exact fractions n/d (d > 0), with    *)
(* the three non-finite doubles encoded by d = 0: 1/0 is Infinity, -1/0 is *)
(* -Infinity and 0/0 is NaN.  Binary rounding error of doubles and the     *)
(* sign of zero are not modelled.  Strings are sequences of one-character  *)
(* strings; a word that the code's regular expressions treat as a unit     *)
(* ("prote", "gordu") is one element of such a sequence.                   *)
(***************************************************************************)
EXTENDS Integers, Sequences, FiniteSets

-----------------------------------------------------------------------------
(* const x = e; ...: the value of e is computed once and named *)

Let1(e1, F(_)) == CHOOSE r \in {F(x1) : x1 \in {e1}} : TRUE

Let2(e1, e2, F(_, _)) == CHOOSE r \in {F(x1, x2) : x1 \in {e1}, x2 \in {e2}} : TRUE

Let3(e1, e2, e3, F(_, _, _)) ==
  CHOOSE r \in {F(x1, x2, x3) : x1 \in {e1}, x2 \in {e2}, x3 \in {e3}} : TRUE

-----------------------------------------------------------------------------
(* JavaScript numbers *)

Abs(i) == IF i < 0 THEN -i ELSE i

Sgn(i) == IF i < 0 THEN -1 ELSE IF i = 0 THEN 0 ELSE 1

RECURSIVE GCD(_, _)
GCD(a, b) == IF b = 0 THEN a ELSE GCD(b, a % b)

\* the fraction n/d in lowest terms; d = 0 keeps only the sign of n
Rat(n, d) ==
  IF d = 0 THEN [n |-> Sgn(n), d |-> 0]
  ELSE Let1(Sgn(d) * GCD(Abs(n), Abs(d)), LAMBDA g : [n |-> n \div g, d |-> d \div g])

Int2(i) == [n |-> i, d |-> 1]
Zero == [n |-> 0, d |-> 1]
NaN == [n |-> 0, d |-> 0]
PosInf == [n |-> 1, d |-> 0]
NegInf == [n |-> -1, d |-> 0]

IsNaN(x) == x.d = 0 /\ x.n = 0
IsFinite(x) == x.d > 0
IsInteger(x) == x.d = 1

\* a + b
Add(a, b) ==
  IF IsNaN(a) \/ IsNaN(b) THEN NaN
  ELSE IF a.d = 0 /\ b.d = 0 THEN (IF a.n = b.n THEN a ELSE NaN)
  ELSE IF a.d = 0 THEN a
  ELSE IF b.d = 0 THEN b
  ELSE Rat(a.n * b.d + b.n * a.d, a.d * b.d)

Neg(a) == [n |-> -a.n, d |-> a.d]

\* a - b
Sub(a, b) == Add(a, Neg(b))

\* a * b
Mul(a, b) ==
  IF IsNaN(a) \/ IsNaN(b) THEN NaN
  ELSE IF a.d = 0 \/ b.d = 0
       THEN Rat(Sgn(a.n) * Sgn(b.n), 0)
  ELSE Rat(a.n * b.n, a.d * b.d)

\* a / b: x/0 is +-Infinity, 0/0 and Infinity/Infinity are NaN
Div(a, b) ==
  IF IsNaN(a) \/ IsNaN(b) THEN NaN
  ELSE IF a.d = 0 /\ b.d = 0 THEN NaN
  ELSE IF a.d = 0 THEN Rat(a.n * (IF b.n < 0 THEN -1 ELSE 1), 0)
  ELSE IF b.d = 0 THEN Zero
  ELSE IF b.n = 0 THEN Rat(Sgn(a.n), 0)
  ELSE Rat(a.n * b.d, a.d * b.n)

\* a < b (false when either is NaN)
Lt(a, b) ==
  IF IsNaN(a) \/ IsNaN(b) THEN FALSE
  ELSE IF a.d = 0 /\ b.d = 0 THEN a.n < b.n
  ELSE IF a.d = 0 THEN a.n < 0
  ELSE IF b.d = 0 THEN b.n > 0
  ELSE a.n * b.d < b.n * a.d

Gt(a, b) == Lt(b, a)
Le(a, b) == Lt(a, b) \/ (~IsNaN(a) /\ a = b)

\* Math.max(a, b): NaN when either is NaN
MathMax(a, b) == IF IsNaN(a) \/ IsNaN(b) THEN NaN ELSE IF Lt(a, b) THEN b ELSE a

\* Math.min(a, b)
MathMin(a, b) == IF IsNaN(a) \/ IsNaN(b) THEN NaN ELSE IF Lt(b, a) THEN b ELSE a

\* Math.round(x): the nearest integer, a tie going up; non-finite unchanged
MathRound(x) == IF x.d = 0 THEN x ELSE Int2((2 * x.n + x.d) \div (2 * x.d))

\* a number is falsy when it is 0 or NaN
NumTruthy(x) == ~IsNaN(x) /\ x # Zero

-----------------------------------------------------------------------------
(* Strings and the conversions between strings and numbers *)

DigitChars == <<"0", "1", "2", "3", "4", "5", "6", "7", "8", "9">>

IsDigit(c) == \E i \in 1..10 : DigitChars[i] = c

DigitVal(c) == (CHOOSE i \in 1..10 : DigitChars[i] = c) - 1

\* the number of digits of s from position i on
RECURSIVE RunLen(_, _)
RunLen(s, i) == IF i <= Len(s) /\ IsDigit(s[i]) THEN 1 + RunLen(s, i + 1) ELSE 0

\* the value of the k digits of s that start at position i
RECURSIVE DigitsVal(_, _, _)
DigitsVal(s, i, k) ==
  IF k = 0 THEN 0 ELSE 10 * DigitsVal(s, i, k - 1) + DigitVal(s[i + k - 1])

\* the first position of s from i on that holds no blank
RECURSIVE SkipWs(_, _)
SkipWs(s, i) == IF i <= Len(s) /\ s[i] = " " THEN SkipWs(s, i + 1) ELSE i

\* the decimal literal [+-]digits[.digits] of s whose digits start at i1
\* (after the blanks and the sign): its value (NaN when there is none)
\* and the position after it
ScanDigits(s, i0, neg, i1) ==
  Let1(RunLen(s, i1), LAMBDA nInt :
  Let1(IF i1 + nInt <= Len(s) /\ s[i1 + nInt] = "." THEN 1 ELSE 0, LAMBDA dot :
  Let1(IF dot = 1 THEN RunLen(s, i1 + nInt + 1) ELSE 0, LAMBDA nFrac :
    IF nInt = 0 /\ nFrac = 0
    THEN [val |-> [n |-> 0, d |-> 0], end |-> i0]
    ELSE [val |-> Rat((IF neg THEN -1 ELSE 1)
                        * (DigitsVal(s, i1, nInt) * (10 ^ nFrac)
                             + DigitsVal(s, i1 + nInt + 1, nFrac)),
                      10 ^ nFrac),
          end |-> i1 + nInt + dot + nFrac])))

\* the longest decimal literal at the start of s, blanks skipped
ScanDecimal(s) ==
  Let1(SkipWs(s, 1), LAMBDA i0 :
    IF i0 <= Len(s) /\ s[i0] \in {"-", "+"}
    THEN ScanDigits(s, i0, s[i0] = "-", i0 + 1)
    ELSE ScanDigits(s, i0, FALSE, i0))

\* parseFloat(s)
parseFloat(s) == ScanDecimal(s).val

\* Number(s) of a string: 0 when blank, NaN unless all of it is one literal
StringToNumber(s) ==
  IF SkipWs(s, 1) > Len(s) THEN Zero
  ELSE Let1(ScanDecimal(s), LAMBDA r :
         IF SkipWs(s, r.end) > Len(s) THEN r.val ELSE NaN)

\* the decimal digits of the natural number m
RECURSIVE NatToString(_)
NatToString(m) ==
  IF m < 10 THEN <<DigitChars[m + 1]>>
  ELSE Append(NatToString(m \div 10), DigitChars[(m % 10) + 1])

\* the k decimal digits of m < 10^k, zeros in front kept
RECURSIVE FracDigits(_, _)
FracDigits(m, k) ==
  IF k = 0 THEN <<>> ELSE Append(FracDigits(m \div 10, k - 1), DigitChars[(m % 10) + 1])

\* the number of decimal places of a fraction of denominator d (at most 4)
DecPlaces(d) ==
  CHOOSE i \in 0..4 : (10 ^ i) % d = 0 /\ \A h \in 0..(i - 1) : (10 ^ h) % d # 0

\* String(x) of a number whose decimal expansion ends within four places
NumberToString(x) ==
  IF IsNaN(x) THEN <<"N", "a", "N">>
  ELSE IF x.d = 0
       THEN (IF x.n < 0 THEN <<"-">> ELSE <<>>) \o <<"I", "n", "f">>
  ELSE Let1(DecPlaces(x.d), LAMBDA k :
       Let1((Abs(x.n) * (10 ^ k)) \div x.d, LAMBDA m :
         (IF x.n < 0 THEN <<"-">> ELSE <<>>)
            \o NatToString(m \div (10 ^ k))
            \o (IF k = 0 THEN <<>> ELSE <<".">> \o FracDigits(m % (10 ^ k), k))))

\* s.replace(/\./g, '')
RECURSIVE RemoveDots(_)
RemoveDots(s) ==
  IF s = <<>> THEN <<>>
  ELSE IF Head(s) = "." THEN RemoveDots(Tail(s))
  ELSE <<Head(s)>> \o RemoveDots(Tail(s))

\* s.replace(',', '.'): the first comma only
RECURSIVE ReplaceFirstComma(_)
ReplaceFirstComma(s) ==
  IF s = <<>> THEN <<>>
  ELSE IF Head(s) = "," THEN <<".">> \o Tail(s)
  ELSE <<Head(s)>> \o ReplaceFirstComma(Tail(s))

-----------------------------------------------------------------------------
(* JavaScript values: null/undefined, a number, or a string *)

JNull == [t |-> "null", v |-> Zero, s |-> <<>>]
JNum(x) == [t |-> "num", v |-> x, s |-> <<>>]
JStr(s) == [t |-> "str", v |-> Zero, s |-> s]

\* whether a value counts as true in  a || b
Truthy(j) ==
  CASE j.t = "null" -> FALSE
    [] j.t = "num" -> NumTruthy(j.v)
    [] j.t = "str" -> j.s # <<>>

\* a || b
Or2(a, b) == IF Truthy(a) THEN a ELSE b

\* a ?? b
Coalesce(a, b) == IF a.t = "null" THEN b ELSE a

\* Number(j); the code applies it to values that are not undefined
ToNumber(j) ==
  CASE j.t = "null" -> Zero
    [] j.t = "num" -> j.v
    [] j.t = "str" -> StringToNumber(j.s)

\* String(j)
JString(j) ==
  CASE j.t = "null" -> <<"n", "u", "l", "l">>
    [] j.t = "num" -> NumberToString(j.v)
    [] j.t = "str" -> j.s

\* Number.isFinite(n) ? n : 0
FiniteOrZero(n) == IF IsFinite(n) THEN n ELSE Zero

\* parseFloat(s.replace(/\./g, '').replace(',', '.')), 0 unless finite
parseBR(s) == FiniteOrZero(parseFloat(ReplaceFirstComma(RemoveDots(s))))

\* num(s)
num(j) == parseBR(JString(j))

\* numBR(s): String(s || '')
numBR(j) == parseBR(JString(Or2(j, JStr(<<>>))))

\* parseNum(v) of pickFromPre
parseNum(j) == IF j.t = "null" THEN Zero ELSE parseBR(JString(j))

\* toNum(s) of computePgFromHtml
toNum(j) == parseBR(JString(j))

\* a rounding that drops the fraction instead of rounding half up
r0Floor(n) ==
  IF n.d = 0 THEN (IF IsNaN(n) THEN Zero ELSE n) ELSE Int2(n.n \div n.d)

\* r0(n) = Math.round(Number(n || 0))
r0(n) == MathRound(IF NumTruthy(n) THEN n ELSE Zero)

-----------------------------------------------------------------------------
(* The model's output.  The markup is kept as the parts the code's regular  *)
(* expressions pick out of it:                                             *)
(*   pre   "none" (no <pre>{...}</pre>), "bad" (JSON.parse throws) or "ok" *)
(*   j     the members of the parsed object, in order: [k, v]              *)
(*   tbody whether the markup holds a <tbody>...</tbody>                   *)
(*   thead the cells of the heading row (<th>), outside the <tbody>        *)
(*   rows  the rows of the first <tbody>, each the texts of its <td> cells *)
(*   mProt, mGord  what the first "proteina [total]: N g" and "gordura     *)
(*         [total]: N g" sentence captures (JNull when there is none)      *)
(***************************************************************************)

HasKey(j, k) == \E i \in 1..Len(j) : j[i].k = k

\* j[k]: the last member of that name
GetKey(j, k) ==
  j[CHOOSE i \in 1..Len(j) : j[i].k = k /\ \A h \in (i + 1)..Len(j) : j[h].k # k].v

\* j[k] = v
SetKey(j, k, v) ==
  IF HasKey(j, k)
  THEN [i \in 1..Len(j) |-> IF j[i].k = k THEN [k |-> k, v |-> v] ELSE j[i]]
  ELSE Append(j, [k |-> k, v |-> v])

carboKeys == <<"carbo_g", "carbo_liquido_g", "carbo_liquidos_g", "cho_g">>

pgKeys == <<"pg_cho_equiv_g", "pg_cho_equiv", "pg_eq_g", "pg_eq", "pg_cho_g">>

\* for (const k of keys) if (k in j) { x = parseNum(j[k]); break; }
RECURSIVE pickFirst(_, _, _)
pickFirst(keys, j, dflt) ==
  IF keys = <<>> THEN dflt
  ELSE IF HasKey(j, Head(keys)) THEN parseNum(GetKey(j, Head(keys)))
  ELSE pickFirst(Tail(keys), j, dflt)

pickFromPre(html) ==
  IF html.pre = "ok"
  THEN [carbo_g |-> pickFirst(carboKeys, html.j, Zero),
        pg_cho_equiv_g |-> pickFirst(pgKeys, html.j, Zero),
        resumo |-> IF HasKey(html.j, "resumo")
                   THEN JString(Or2(GetKey(html.j, "resumo"), JStr(<<>>)))
                   ELSE <<>>]
  ELSE [carbo_g |-> Zero, pg_cho_equiv_g |-> Zero, resumo |-> <<>>]

\* whether the text matches /prote/i
HasProte(s) == \E i \in 1..Len(s) : s[i] = "prote"

\* whether the text matches /gordu|fat/i
HasGordu(s) == \E i \in 1..Len(s) : s[i] \in {"gordu", "fat"}

IsNumChar(c) == IsDigit(c) \/ c \in {".", ","}

RECURSIVE NumRunLen(_, _)
NumRunLen(s, i) == IF i <= Len(s) /\ IsNumChar(s[i]) THEN 1 + NumRunLen(s, i + 1) ELSE 0

\* text.match(/([\d\.,]+)/)?.[1] || ""
FirstNumRun(s) ==
  IF \E i \in 1..Len(s) : IsNumChar(s[i])
  THEN LET i == CHOOSE x \in 1..Len(s) :
                  IsNumChar(s[x]) /\ \A h \in 1..(x - 1) : ~IsNumChar(s[h])
       IN SubSeq(s, i, i + NumRunLen(s, i) - 1)
  ELSE <<>>

\* the cells of one row: what they add to pSum and gSum
RECURSIVE cellSums(_, _)
cellSums(cells, acc) ==
  IF cells = <<>> THEN acc
  ELSE Let2(Head(cells), toNum(JStr(FirstNumRun(Head(cells)))), LAMBDA plain, val :
         cellSums(Tail(cells),
           [p |-> IF NumTruthy(val) /\ HasProte(plain) THEN Add(acc.p, val) ELSE acc.p,
            g |-> IF NumTruthy(val) /\ HasGordu(plain) THEN Add(acc.g, val) ELSE acc.g]))

\* every <tr> of the markup: rows of fewer than 2 cells are skipped
RECURSIVE rowSums(_, _)
rowSums(trs, acc) ==
  IF trs = <<>> THEN acc
  ELSE rowSums(Tail(trs), IF Len(Head(trs)) < 2 THEN acc ELSE cellSums(Head(trs), acc))

\* every <tr>...</tr> of the markup, the heading row first
AllTr(html) == (IF html.thead = <<>> THEN <<>> ELSE <<html.thead>>) \o html.rows

\* a || b of two numbers
NumOr(a, b) == IF NumTruthy(a) THEN a ELSE b

computePgFromHtml(html, percent) ==
  Let3(IF html.mProt.t = "null" THEN Zero ELSE toNum(html.mProt),
       IF html.mGord.t = "null" THEN Zero ELSE toNum(html.mGord),
       rowSums(AllTr(html), [p |-> Zero, g |-> Zero]),
       LAMBDA protG0, gordG0, sums :
  Let3(~Gt(protG0, Zero) \/ ~Gt(gordG0, Zero), percent, Zero, LAMBDA scan, pct, z :
  Let2(IF scan /\ Gt(sums.p, Zero) THEN NumOr(protG0, sums.p) ELSE protG0,
       IF scan /\ Gt(sums.g, Zero) THEN NumOr(gordG0, sums.g) ELSE gordG0,
       LAMBDA protG, gordG :
  Let2(Mul(protG, Int2(4)), Mul(gordG, Int2(9)), LAMBDA kcalP, kcalG :
    [protG |-> protG, gordG |-> gordG,
     choEq |-> Add(Mul(protG, NumOr(pct, Zero)), Mul(gordG, Rat(225, 1000))),
     kcalP |-> kcalP, kcalG |-> kcalG, kcal |-> Add(kcalP, kcalG)]))))

\* the rows of the first <tbody> with at least 6 <td>: cells 5 and 6 summed
RECURSIVE tableSums(_, _)
tableSums(trs, acc) ==
  IF trs = <<>> THEN acc
  ELSE IF Len(Head(trs)) < 6 THEN tableSums(Tail(trs), acc)
  ELSE Let2(numBR(JStr(Head(trs)[5])), numBR(JStr(Head(trs)[6])), LAMBDA p, g :
         tableSums(Tail(trs),
           [prot_g |-> IF NumTruthy(p) THEN Add(acc.prot_g, p) ELSE acc.prot_g,
            gord_g |-> IF NumTruthy(g) THEN Add(acc.gord_g, g) ELSE acc.gord_g,
            partsP |-> IF NumTruthy(p) THEN Append(acc.partsP, p) ELSE acc.partsP,
            partsG |-> IF NumTruthy(g) THEN Append(acc.partsG, g) ELSE acc.partsG]))

\* a scan that stops after the first row of the <tbody>
parseFirstRowOnly(html) ==
  IF html.tbody /\ html.rows # <<>>
  THEN tableSums(<<Head(html.rows)>>,
                 [prot_g |-> Zero, gord_g |-> Zero, partsP |-> <<>>, partsG |-> <<>>])
  ELSE [prot_g |-> Zero, gord_g |-> Zero, partsP |-> <<>>, partsG |-> <<>>]

parseProtGordFromTable(html) ==
  tableSums(IF html.tbody THEN html.rows ELSE <<>>,
            [prot_g |-> Zero, gord_g |-> Zero, partsP |-> <<>>, partsG |-> <<>>])

\* Number(x.toFixed(1)): one decimal, a tie going away from zero
toFixed1(x) ==
  IF x.d = 0 THEN x
  ELSE Rat(Sgn(x.n) * ((2 * 10 * Abs(x.n) + x.d) \div (2 * x.d)), 10)

\* Math.max(0, Math.min(100, x))
clampPct(x) == MathMax(Zero, MathMin(Int2(100), x))

\* Number(cfg?.icr || cfg?.insulina_cho || 10)
icrOf(cfg) == ToNumber(Or2(Or2(cfg.icr, cfg.insulina_cho), JNum(Int2(10))))

\* Number(cfg?.isf || cfg?.glicose_insulina || 50)
isfOf(cfg) == ToNumber(Or2(Or2(cfg.isf, cfg.glicose_insulina), JNum(Int2(50))))

\* Number(cfg?.target || 100)
targetOf(cfg) == ToNumber(Or2(cfg.target, JNum(Int2(100))))

\* pgPct of systemPrompt: Math.max(0, Math.min(100, Number(cfg?.pct_cal_pf ?? 100)))
pgPct(cfg) == clampPct(ToNumber(Coalesce(cfg.pct_cal_pf, JNum(Int2(100)))))

\* JSON.stringify of a number: NaN and the infinities become null
JsonNum(x) == IF IsFinite(x) THEN JNum(x) ELSE JNull

enforcePgRule(html, cfg) ==
  Let3(clampPct(ToNumber(Coalesce(cfg.pct_cal_pf, JNum(Zero)))), icrOf(cfg),
       parseProtGordFromTable(html), LAMBDA protPct, icr, t :
  Let2(Mul(t.prot_g, Int2(4)), Mul(t.gord_g, Int2(9)), LAMBDA kcalP, kcalG :
  Let2(Mul(kcalP, Div(protPct, Int2(100))), Mul(kcalG, Rat(10, 100)),
       LAMBDA kcalProtConsiderada, kcalGordConsiderada :
  Let1(Div(Add(kcalProtConsiderada, kcalGordConsiderada), Int2(10)),
       LAMBDA pg_cho_equiv_g :
    [html |-> IF html.pre = "ok"
              THEN [html EXCEPT !.j = SetKey(html.j, "pg_cho_equiv_g",
                                             JsonNum(toFixed1(pg_cho_equiv_g)))]
              ELSE html,
     pg_cho_equiv_g |-> pg_cho_equiv_g,
     doseRegular |-> IF Gt(icr, Zero) THEN Div(pg_cho_equiv_g, icr) ELSE Zero,
     protPct |-> protPct, prot_g |-> t.prot_g, gord_g |-> t.gord_g]))))

-----------------------------------------------------------------------------
(* The dose computation of the two handlers *)

\* (cfg?.pg_strategy || "regular_now").trim(), cfg.pg_strategy being
\* pg_strategy || cfgRaw?.pg_strategy || "regular_now"; "" is an absent one
stratOf(reqStrategy, cfgRaw) ==
  IF reqStrategy # "" THEN reqStrategy
  ELSE IF cfgRaw.pg_strategy # "" THEN cfgRaw.pg_strategy
  ELSE "regular_now"

computeDoses(cfg, strat, glicemia, carbo_g, pg_cho_equiv_g) ==
  Let3(icrOf(cfg), isfOf(cfg), targetOf(cfg), LAMBDA icr, isf, target :
  Let3(Div(carbo_g, icr),
       MathMax(Zero, Div(Sub(glicemia, target), isf)),
       IF strat = "regular_now" THEN Div(pg_cho_equiv_g, icr) ELSE Zero,
       LAMBDA doseCho, doseCor, dosePg :
    [icr |-> icr, isf |-> isf, target |-> target, strat |-> strat,
     doseCho |-> doseCho, doseCor |-> doseCor, dosePg |-> dosePg,
     rapidTotalU |-> r0(Add(doseCho, doseCor)),
     regularU |-> r0(dosePg)]))

\* POST /api/chat, lines 615-628
chatDoses(cfg, strat, glicemia, carbo_g, pg_cho_equiv_g) ==
  computeDoses(cfg, strat, glicemia, carbo_g, pg_cho_equiv_g)

\* POST /api/chat-image, lines 751-762
chatImageDoses(cfg, strat, glicemia, carbo_g, pg_cho_equiv_g) ==
  computeDoses(cfg, strat, glicemia, carbo_g, pg_cho_equiv_g)

\* what both handlers do with the model's answer: pickFromPre, the
\* protein+fat fallback and enforcePgRule
analyse(raw, cfg) ==
  Let3(pickFromPre(raw),
       Div(clampPct(ToNumber(Coalesce(cfg.pct_cal_pf, JNum(Int2(100))))), Int2(100)),
       enforcePgRule(raw, cfg), LAMBDA parsed, percent, enforced :
  Let2(~Gt(parsed.pg_cho_equiv_g, Zero), computePgFromHtml(raw, percent),
       LAMBDA fallback, r :
  Let1(IF fallback THEN r.choEq ELSE parsed.pg_cho_equiv_g, LAMBDA pg1 :
    [carbo_g |-> parsed.carbo_g,
     pg_cho_equiv_g |-> IF ~Gt(pg1, Zero) THEN enforced.pg_cho_equiv_g ELSE pg1,
     resumo |-> parsed.resumo, detalhes_html |-> enforced.html,
     parsedPg |-> parsed.pg_cho_equiv_g, fallback |-> fallback,
     percent |-> percent, protG |-> r.protG, gordG |-> r.gordG, choEq |-> r.choEq,
     protPct |-> enforced.protPct, prot_g |-> enforced.prot_g,
     gord_g |-> enforced.gord_g, enforcedPg |-> enforced.pg_cho_equiv_g])))

-----------------------------------------------------------------------------
(* Inputs *)

\* a string of the model as the sequence of its characters
Txt20 == <<"2", "0">>
Txt10 == <<"1", "0">>

Html(kind, pre, j, tbody, thead, rows, mProt, mGord) ==
  [kind |-> kind, pre |-> pre, j |-> j, tbody |-> tbody, thead |-> thead,
   rows |-> rows, mProt |-> mProt, mGord |-> mGord]

\* no markup at all; kind names the fixed texts the handlers answer with
Plain(kind) == Html(kind, "none", <<>>, FALSE, <<>>, <<>>, JNull, JNull)

\* "<em>Análise automática indisponível.</em>"
Indisponivel == Plain("indisponivel")

Member(k, v) == [k |-> k, v |-> v]

\* the heading row of the mandated table
Thead == <<<<"x">>, <<>>, <<>>, <<>>, <<"prote">>, <<"gordu">>>>

\* a row of the mandated table: food, amount, CHO, kcal, protein, fat
Row6(prot, gord) == <<<<"x">>, <<"1", "g">>, <<"3", "g">>, <<"~", "9">>, prot, gord>>

RowA == Row6(<<"2", "0", " ", "g">>, <<"1", "0", " ", "g">>)
RowB == Row6(<<"1", "0", " ", "g">>, <<"1", "0", " ", "g">>)
RowC == Row6(<<"2", ",", "5", " ", "g">>, <<"0", ",", "5", "g">>)
RowD == Row6(<<"~", "7", " ", "g">>, <<"1", ".", "2", "0", "0", " ", "g">>)
\* a row of fewer than 6 cells
RowShort == <<<<"x">>, <<"prote", " ", "7", " ", "g">>, <<"gordu", " ", "4", "g">>>>

\* the answers the model gives in the handlers' specification
RawSamples ==
  << \* the mandated format, the end-to-end example of the documentation
     Html("model", "ok",
          <<Member("carbo_g", JNum(Int2(60))), Member("carbo_totais_g", JNum(Int2(60))),
            Member("pg_cho_equiv_g", JNum(Rat(138, 10))),
            Member("resumo", JStr(<<"x">>))>>,
          TRUE, Thead, <<RowA, RowB>>, JNull, JNull),
     \* the block reports no protein+fat equivalent; the text names the totals
     Html("model", "ok",
          <<Member("carbo_g", JNum(Int2(34))), Member("pg_cho_equiv_g", JNum(Zero))>>,
          TRUE, Thead, <<RowA>>, JStr(Txt20), JStr(Txt10)),
     \* a fraction in the block, an alias for the equivalent
     Html("model", "ok",
          <<Member("cho_g", JNum(Rat(455, 10))), Member("pg_eq", JNum(Int2(20)))>>,
          TRUE, Thead, <<RowC>>, JNull, JNull),
     \* no data block, the table only
     Html("model", "none", <<>>, TRUE, Thead, <<RowA, RowB>>, JNull, JNull),
     \* a block that does not parse, rows outside a <tbody>, labelled cells
     Html("model", "bad", <<>>, FALSE, <<>>, <<RowShort>>, JNull, JNull),
     \* a negative number and text in the block
     Html("model", "ok",
          <<Member("carbo_g", JStr(<<"-", "5">>)), Member("pg_cho_equiv_g", JNull)>>,
          TRUE, Thead, <<RowD>>, JStr(Txt20), JNull),
     \* an empty answer
     Plain("model") >>

\* icr and insulina_cho as the settings store returns them
IcrPairs ==
  { <<JNull, JNull>>, <<JNum(Int2(-5)), JNull>>,
    <<JStr(<<"0">>), JNum(Int2(15))>>, <<JNum(Zero), JNum(Int2(15))>> }

\* isf and glicose_insulina
IsfPairs ==
  { <<JNull, JNull>>, <<JNum(Int2(-50)), JNull>>, <<JStr(<<"0">>), JNum(Int2(40))>> }

\* the rows of patient_settings; the one of all nulls stands for no row
CfgSet ==
  { [icr |-> i[1], insulina_cho |-> i[2], isf |-> s[1], glicose_insulina |-> s[2],
     target |-> t, pg_strategy |-> g, pct_cal_pf |-> p] :
      i \in IcrPairs, s \in IsfPairs, t \in {JNull, JNum(Int2(155))},
      g \in {"", "split_rapid"}, p \in {JNull, JNum(Int2(50))} }

NoCfg == [icr |-> JNull, insulina_cho |-> JNull, isf |-> JNull,
          glicose_insulina |-> JNull, target |-> JNull, pg_strategy |-> "",
          pct_cal_pf |-> JNull]

\* the request bodies
ReqSet ==
  { x \in
      { [route |-> r, userId |-> u, glicemia |-> g, pg_strategy |-> st, image |-> im] :
          r \in {"chat", "chat-image"}, u \in {"", "u1"},
          g \in {JNum(Int2(100)), JNum(Int2(110)), JNum(Int2(180)),
                 JStr(<<"1", "0", "0">>)},
          st \in {"", "regular_now"}, im \in BOOLEAN } :
      x.route = "chat" => ~x.image }

NoReq == [route |-> "", userId |-> "", glicemia |-> JNull, pg_strategy |-> "",
          image |-> FALSE]

\* !userId || typeof glicemia !== "number" (|| !image_data_url)
invalid(r) ==
  r.userId = "" \/ r.glicemia.t # "num" \/ (r.route = "chat-image" /\ ~r.image)

-----------------------------------------------------------------------------
(* The handlers of POST /api/chat and POST /api/chat-image as one request   *)
(* that moves from one await to the next.                                  *)

VARIABLES
  openai,     \* whether OPENAI_API_KEY is set, so that the client exists
  pc,         \* where the request is: idle, cfg, model, upload, insert1, retry, done
  req,        \* req.body
  cfgRaw,     \* the row of patient_settings
  loc,        \* the handler's local variables
  refeicoes,  \* the rows of table refeicoes
  inserts,    \* the inserts this request has issued: [narrative, ok]
  res,        \* the response
  arg,        \* the argument of the function under test
  ret         \* what the function returned

vars == <<openai, pc, req, cfgRaw, loc, refeicoes, inserts, res, arg, ret>>

NoDoses == [icr |-> Zero, isf |-> Zero, target |-> Zero, strat |-> "",
            doseCho |-> Zero, doseCor |-> Zero, dosePg |-> Zero,
            rapidTotalU |-> Zero, regularU |-> Zero]

NoLoc == [model |-> "none", carbo_g |-> Zero, pg_cho_equiv_g |-> Zero,
          resumo |-> <<>>, detalhes_html |-> Plain("empty"),
          parsedPg |-> Zero, fallback |-> FALSE, percent |-> Zero,
          protG |-> Zero, gordG |-> Zero, choEq |-> Zero, protPct |-> Zero,
          prot_g |-> Zero, gord_g |-> Zero, enforcedPg |-> Zero,
          foto_url |-> "null", dosed |-> FALSE, doses |-> NoDoses]

\* res.detalhes_html is "detalhes_html" when it is the local variable of that
\* name, and "nao_foi_possivel" when it is the catch's fixed text
NoRes == [status |-> 0, ok |-> FALSE, carbo_g |-> Zero, pg_cho_equiv_g |-> Zero,
          detalhes_html |-> "none"]

HandlerInit ==
  /\ pc = "idle"
  /\ req = NoReq
  /\ cfgRaw = NoCfg
  /\ loc = NoLoc
  /\ refeicoes = <<>>
  /\ inserts = <<>>
  /\ res = NoRes

Init ==
  /\ openai \in BOOLEAN
  /\ HandlerInit
  /\ arg = JNull
  /\ ret = JNull

\* res.status(status).json({ok: false, error})
ErrorRes(status) == [NoRes EXCEPT !.status = status]

\* res.json({ok: true, ..., totais, detalhes_html})
OkRes(l) == [status |-> 200, ok |-> TRUE, carbo_g |-> l.carbo_g,
             pg_cho_equiv_g |-> l.pg_cho_equiv_g, detalhes_html |-> "detalhes_html"]

\* the catch of /api/chat-image: res.json({ok: true, totais: 0, 0, ...})
FallbackRes == [status |-> 200, ok |-> TRUE, carbo_g |-> Zero,
                pg_cho_equiv_g |-> Zero, detalhes_html |-> "nao_foi_possivel"]

\* the catch blocks: e is "timeout" or another error
catch(route, e) ==
  IF route = "chat-image" THEN FallbackRes
  ELSE IF e = "timeout" THEN ErrorRes(504) ELSE ErrorRes(500)

\* the local variables once the doses are computed
withDoses(l, cfg) ==
  [l EXCEPT !.dosed = TRUE,
            !.doses = IF req.route = "chat"
                      THEN chatDoses(cfg, stratOf(req.pg_strategy, cfg),
                                     req.glicemia.v, l.carbo_g, l.pg_cho_equiv_g)
                      ELSE chatImageDoses(cfg, stratOf(req.pg_strategy, cfg),
                                          req.glicemia.v, l.carbo_g, l.pg_cho_equiv_g)]

\* insertPayload; descricao_model is TRUE when the row carries the local
\* variable detalhes_html and FALSE when it carries no such field
insertPayload(l) ==
  [user_id |-> req.userId, glicemia |-> req.glicemia.v,
   cho_total_g |-> l.carbo_g, pg_cho_equiv_g |-> l.pg_cho_equiv_g,
   dose_rapida_total |-> l.doses.rapidTotalU, dose_regular_pg |-> l.doses.regularU,
   descricao_model |-> TRUE, foto_url |-> l.foto_url]

\* basic = {...insertPayload}; delete basic.descricao_model
basicPayload(l) ==
  [insertPayload(l) EXCEPT !.descricao_model = FALSE]

\* the model stage is over: /api/chat goes on to the doses and the insert,
\* /api/chat-image to the upload of the photo
afterModel(l, cfg) ==
  IF req.route = "chat-image"
  THEN pc' = "upload" /\ loc' = l
  ELSE pc' = "insert1" /\ loc' = withDoses(l, cfg)

\* the request arrives and is validated; the settings are asked for
Receive ==
  /\ pc = "idle"
  /\ \E r \in ReqSet :
       /\ req' = r
       /\ IF invalid(r)
          THEN pc' = "done" /\ res' = ErrorRes(400)
          ELSE pc' = "cfg" /\ res' = res
  /\ UNCHANGED <<openai, cfgRaw, loc, refeicoes, inserts, arg, ret>>

\* the settings arrive; with a client the model is called
CallModel ==
  /\ pc = "cfg"
  /\ openai
  /\ \E c \in CfgSet : cfgRaw' = c
  /\ pc' = "model"
  /\ UNCHANGED <<openai, req, loc, refeicoes, inserts, res, arg, ret>>

\* the settings arrive; without a client the fixed text is used
NoClient ==
  /\ pc = "cfg"
  /\ ~openai
  /\ \E c \in CfgSet :
       /\ cfgRaw' = c
       /\ afterModel([loc EXCEPT !.model = "unavailable", !.detalhes_html = Indisponivel],
                     c)
  /\ UNCHANGED <<openai, req, refeicoes, inserts, res, arg, ret>>

\* the model answers before the timer fires
ModelAnswer ==
  /\ pc = "model"
  /\ \E i \in 1..Len(RawSamples) :
       \E a \in {analyse(RawSamples[i], cfgRaw)} :
          afterModel([loc EXCEPT !.model = "answer",
                        !.carbo_g = a.carbo_g, !.pg_cho_equiv_g = a.pg_cho_equiv_g,
                        !.resumo = a.resumo, !.detalhes_html = a.detalhes_html,
                        !.parsedPg = a.parsedPg, !.fallback = a.fallback,
                        !.percent = a.percent, !.protG = a.protG, !.gordG = a.gordG,
                        !.choEq = a.choEq, !.protPct = a.protPct,
                        !.prot_g = a.prot_g, !.gord_g = a.gord_g,
                        !.enforcedPg = a.enforcedPg],
                     cfgRaw)
  /\ UNCHANGED <<openai, req, cfgRaw, refeicoes, inserts, res, arg, ret>>

\* a timer whose firing is recorded while the handler goes on waiting
TimerWithoutRace ==
  /\ pc = "model"
  /\ loc' = [loc EXCEPT !.model = "timeout"]
  /\ UNCHANGED <<openai, pc, req, cfgRaw, refeicoes, inserts, res, arg, ret>>

\* withTimeout's timer fires first: the await throws Error("Timeout IA ...")
ModelTimeout ==
  /\ pc = "model"
  /\ loc' = [loc EXCEPT !.model = "timeout"]
  /\ res' = catch(req.route, "timeout")
  /\ pc' = "done"
  /\ UNCHANGED <<openai, req, cfgRaw, refeicoes, inserts, arg, ret>>

\* the model's API rejects the call
ModelFail ==
  /\ pc = "model"
  /\ loc' = [loc EXCEPT !.model = "fail"]
  /\ res' = catch(req.route, "error")
  /\ pc' = "done"
  /\ UNCHANGED <<openai, req, cfgRaw, refeicoes, inserts, arg, ret>>

\* uploadMealPhoto returns the public URL, or throws and foto_url stays null
Upload ==
  /\ pc = "upload"
  /\ \E u \in {"url", "null"} : loc' = withDoses([loc EXCEPT !.foto_url = u], cfgRaw)
  /\ pc' = "insert1"
  /\ UNCHANGED <<openai, req, cfgRaw, refeicoes, inserts, res, arg, ret>>

\* the first insert succeeds
InsertOk ==
  /\ pc = "insert1"
  /\ refeicoes' = Append(refeicoes, insertPayload(loc))
  /\ inserts' = Append(inserts, [narrative |-> TRUE, ok |-> TRUE])
  /\ res' = OkRes(loc)
  /\ pc' = "done"
  /\ UNCHANGED <<openai, req, cfgRaw, loc, arg, ret>>

\* the first insert fails: the retry without descricao_model is issued
InsertFail ==
  /\ pc = "insert1"
  /\ inserts' = Append(inserts, [narrative |-> TRUE, ok |-> FALSE])
  /\ pc' = "retry"
  /\ UNCHANGED <<openai, req, cfgRaw, loc, refeicoes, res, arg, ret>>

\* the retry succeeds
RetryOk ==
  /\ pc = "retry"
  /\ refeicoes' = Append(refeicoes, basicPayload(loc))
  /\ inserts' = Append(inserts, [narrative |-> FALSE, ok |-> TRUE])
  /\ res' = OkRes(loc)
  /\ pc' = "done"
  /\ UNCHANGED <<openai, req, cfgRaw, loc, arg, ret>>

\* the retry fails: throw e1
RetryFail ==
  /\ pc = "retry"
  /\ inserts' = Append(inserts, [narrative |-> FALSE, ok |-> FALSE])
  /\ res' = catch(req.route, "error")
  /\ pc' = "done"
  /\ UNCHANGED <<openai, req, cfgRaw, loc, refeicoes, arg, ret>>

Next ==
  \/ Receive
  \/ CallModel
  \/ NoClient
  \/ ModelAnswer
  \/ ModelTimeout
  \/ ModelFail
  \/ Upload
  \/ InsertOk
  \/ InsertFail
  \/ RetryOk
  \/ RetryFail

Spec == Init /\ [][Next]_vars

\* the timer of withTimeout fires while the handler still waits, and the
\* calls to the store and to the storage return
SpecLive ==
  /\ Init /\ [][Next]_vars
  /\ WF_vars(ModelTimeout)
  /\ WF_vars(CallModel \/ NoClient)
  /\ WF_vars(Upload)
  /\ WF_vars(InsertOk \/ InsertFail)
  /\ WF_vars(RetryOk \/ RetryFail)

-----------------------------------------------------------------------------
(* The numeric parsers num, parseNum and numBR on their own: a value is     *)
(* parsed, and the result is parsed again.                                 *)

MaxNum == 12
MaxApply == 2

\* numbers with up to two decimals, nothing, and the texts of table cells
ParseArgs ==
  { JNum(Rat(n, d)) : n \in (0 - MaxNum)..MaxNum, d \in {1, 2, 4, 10} }
    \cup { JNull, JStr(<<>>), JStr(<<"x">>), JStr(<<"7", "g">>),
           JStr(<<"2", ",", "5", " ", "g">>),
           JStr(<<"1", ".", "2", "3", "4", ",", "5">>),
           JStr(<<"-", "3">>), JStr(<<"~", "7">>) }

ParseInit ==
  /\ openai = FALSE
  /\ HandlerInit
  /\ arg \in ParseArgs
  /\ ret = <<>>

\* the value the next call parses: the argument, then the last result
parseInput == IF ret = <<>> THEN arg ELSE JNum(ret[Len(ret)])

ApplyNum ==
  /\ pc \in {"idle", "num"}
  /\ Len(ret) < MaxApply
  /\ ret' = Append(ret, num(parseInput))
  /\ pc' = "num"
  /\ UNCHANGED <<openai, req, cfgRaw, loc, refeicoes, inserts, res, arg>>

ApplyParseNum ==
  /\ pc \in {"idle", "parseNum"}
  /\ Len(ret) < MaxApply
  /\ ret' = Append(ret, parseNum(parseInput))
  /\ pc' = "parseNum"
  /\ UNCHANGED <<openai, req, cfgRaw, loc, refeicoes, inserts, res, arg>>

ApplyNumBR ==
  /\ pc \in {"idle", "numBR"}
  /\ Len(ret) < MaxApply
  /\ ret' = Append(ret, numBR(parseInput))
  /\ pc' = "numBR"
  /\ UNCHANGED <<openai, req, cfgRaw, loc, refeicoes, inserts, res, arg>>

ParseNext == ApplyNum \/ ApplyParseNum \/ ApplyNumBR

SpecParse == ParseInit /\ [][ParseNext]_vars

-----------------------------------------------------------------------------
(* The extractors pickFromPre, parseProtGordFromTable and computePgFromHtml *)
(* on their own, applied to one output of the model.                       *)

MaxTableRows == 2

\* what a member of the data block holds
BlockValues == {JNum(Int2(60)), JNum(Rat(455, 10)), JNull}

\* the members of the block for one field: none, one alias, or two aliases
\* written in the reverse of the order of the alias list
BlockParts(keys) ==
  {<<>>}
    \cup { <<Member(keys[i], v)>> : i \in 1..Len(keys), v \in BlockValues }
    \cup { <<Member(keys[Len(keys)], JNum(Int2(10))), Member(keys[1], v)>> :
             v \in {JNum(Int2(60)), JNull} }

\* well-formed data blocks
DataBlocks ==
  { c \o g \o r : c \in BlockParts(carboKeys), g \in BlockParts(pgKeys),
                  r \in {<<>>, <<Member("resumo", JStr(<<"x">>))>>} }

RowSet == {RowA, RowB, RowC, RowD, RowShort}

\* the tables of at most MaxTableRows rows
Tables ==
  UNION { [1..n -> RowSet] : n \in 0..MaxTableRows }

\* the narrative sentences "Proteína total: 20 g" and "Gordura total: 10 g"
Narratives == { <<JNull, JNull>>, <<JStr(Txt20), JNull>>, <<JStr(Txt20), JStr(Txt10)>> }

ExtractInputs ==
  { Html("model", "ok", j, TRUE, Thead, <<RowA>>, JNull, JNull) : j \in DataBlocks }
    \cup { Html("model", pre, <<>>, tb, Thead, rows, m[1], m[2]) :
             pre \in {"none", "bad"}, tb \in BOOLEAN, rows \in Tables,
             m \in Narratives }

ExtractInit ==
  /\ openai = FALSE
  /\ HandlerInit
  /\ arg \in ExtractInputs
  /\ ret = JNull

ApplyPickFromPre ==
  /\ pc = "idle"
  /\ ret' = pickFromPre(arg)
  /\ pc' = "pickFromPre"
  /\ UNCHANGED <<openai, req, cfgRaw, loc, refeicoes, inserts, res, arg>>

ApplyParseProtGordFromTable ==
  /\ pc = "idle"
  /\ ret' = parseProtGordFromTable(arg)
  /\ pc' = "parseProtGordFromTable"
  /\ UNCHANGED <<openai, req, cfgRaw, loc, refeicoes, inserts, res, arg>>

\* percent is left to its default, 1.0
ApplyComputePgFromHtml ==
  /\ pc = "idle"
  /\ ret' = computePgFromHtml(arg, Int2(1))
  /\ pc' = "computePgFromHtml"
  /\ UNCHANGED <<openai, req, cfgRaw, loc, refeicoes, inserts, res, arg>>

ExtractNext ==
  \/ ApplyPickFromPre
  \/ ApplyParseProtGordFromTable
  \/ ApplyComputePgFromHtml

SpecExtract == ExtractInit /\ [][ExtractNext]_vars

-----------------------------------------------------------------------------
(* The properties checked *)

Half == Rat(1, 2)

\* k is x rounded to the nearest integer, a tie going up
IsHalfUp(x, k) == IsInteger(k) /\ Le(Sub(k, Half), x) /\ Lt(x, Add(k, Half))

\* a stored setting that is zero or negative, as a number or as a text
NonPositive(j) == j.t # "null" /\ Le(ToNumber(j), Zero)

\* (protein_g*4*proteinPercent/100 + fat_g*9*0.10) / 10
CanonicalEq(p, g, pct) ==
  Div(Add(Div(Mul(Mul(p, Int2(4)), pct), Int2(100)),
          Mul(Mul(g, Int2(9)), Rat(10, 100))),
      Int2(10))

\* the value of the first alias of the list that carries a number, else 0
RECURSIVE FirstValue(_, _)
FirstValue(j, keys) ==
  IF keys = <<>> THEN Zero
  ELSE IF HasKey(j, Head(keys)) /\ GetKey(j, Head(keys)).t = "num"
       THEN GetKey(j, Head(keys)).v
       ELSE FirstValue(j, Tail(keys))

\* the sum, over the rows of at least 6 cells, of the value in cell c
RECURSIVE SumCol(_, _)
SumCol(rows, c) ==
  IF rows = <<>> THEN Zero
  ELSE Add(IF Len(Head(rows)) >= 6 THEN numBR(JStr(Head(rows)[c])) ELSE Zero,
           SumCol(Tail(rows), c))

\* C1: once the doses are computed, the ratio and the sensitivity used are
\* positive, a stored ratio or sensitivity that is zero or negative (as a
\* number or as a numeric text) has been replaced by the default 10 or 50,
\* and no dose is Infinity or NaN.
C1_NonPositiveProfileUsesDefault ==
  loc.dosed =>
    /\ Gt(loc.doses.icr, Zero)
    /\ Gt(loc.doses.isf, Zero)
    /\ (NonPositive(cfgRaw.icr) /\ cfgRaw.insulina_cho = JNull
          => loc.doses.icr = Int2(10))
    /\ (NonPositive(cfgRaw.isf) /\ cfgRaw.glicose_insulina = JNull
          => loc.doses.isf = Int2(50))
    /\ IsFinite(loc.doses.doseCho)
    /\ IsFinite(loc.doses.doseCor)
    /\ IsFinite(loc.doses.dosePg)
    /\ IsFinite(loc.doses.rapidTotalU)
    /\ IsFinite(loc.doses.regularU)

\* C2: whenever the glucose reading is at or below the target, the correction
\* dose is exactly 0 and the fast-acting total is the rounded carbohydrate
\* dose alone, whatever the stored profile.
C2_NoCorrectionAtOrBelowTarget ==
  loc.dosed /\ Le(req.glicemia.v, loc.doses.target) =>
    /\ loc.doses.doseCor = Zero
    /\ loc.doses.rapidTotalU = r0(loc.doses.doseCho)

\* C3: every persisted dose_rapida_total is carbohydrate / ratio plus the
\* correction dose, rounded to the nearest integer with a tie going up,
\* whenever that sum is a finite number; the protein+fat dose is no part of
\* it.  3.4 + 0.2 gives 4; 60 g at ratio 10 with glucose 180, target 100 and
\* sensitivity 50 gives 8.
C3_RapidTotalIsHalfUpOfChoPlusCorrection ==
  \A i \in 1..Len(refeicoes) :
    \E x \in { Add(Div(refeicoes[i].cho_total_g, loc.doses.icr),
                   MathMax(Zero, Div(Sub(refeicoes[i].glicemia, loc.doses.target),
                                     loc.doses.isf))) } :
      /\ IsFinite(x) => IsHalfUp(x, refeicoes[i].dose_rapida_total)
      /\ x = Rat(36, 10) => refeicoes[i].dose_rapida_total = Int2(4)
      /\ (/\ refeicoes[i].cho_total_g = Int2(60) /\ loc.doses.icr = Int2(10)
          /\ refeicoes[i].glicemia = Int2(180) /\ loc.doses.target = Int2(100)
          /\ loc.doses.isf = Int2(50))
           => refeicoes[i].dose_rapida_total = Int2(8)

\* C3, its case: a meal of 34 g of carbohydrate at ratio 10 with a correction
\* of 0.2 and a protein+fat dose above 0 is persisted with a total of 4
C3_Witness ==
  /\ Len(refeicoes) = 1
  /\ refeicoes[1].cho_total_g = Int2(34)
  /\ loc.doses.doseCho = Rat(34, 10)
  /\ loc.doses.doseCor = Rat(2, 10)
  /\ Gt(loc.doses.dosePg, Zero)
  /\ refeicoes[1].dose_rapida_total = Int2(4)

\* C4: every persisted dose_regular_pg is the protein+fat equivalent divided
\* by the ratio, rounded, under the strategy regular_now and under
\* split_rapid alike.
C4_RegularDoseUnderEitherStrategy ==
  \A i \in 1..Len(refeicoes) :
    \E x \in { Div(refeicoes[i].pg_cho_equiv_g, loc.doses.icr) } :
      IsFinite(x) => IsHalfUp(x, refeicoes[i].dose_regular_pg)

\* C5: when the data block reports no protein+fat equivalent above 0, the
\* equivalent persisted is the canonical rule applied to the recovered
\* protein and fat grams (those of the narrative or those of the table) with
\* the patient's protein percentage.
C5_FallbackUsesCanonicalRule ==
  \A i \in 1..Len(refeicoes) :
    loc.model = "answer" /\ ~Gt(loc.parsedPg, Zero) =>
      refeicoes[i].pg_cho_equiv_g \in
        { CanonicalEq(loc.protG, loc.gordG, Mul(loc.percent, Int2(100))),
          CanonicalEq(loc.protG, loc.gordG, loc.protPct),
          CanonicalEq(loc.prot_g, loc.gord_g, Mul(loc.percent, Int2(100))),
          CanonicalEq(loc.prot_g, loc.gord_g, loc.protPct) }

\* C6: a request whose model call timed out, or that found no model client,
\* and whose inserts did not both fail, ends with a success response of
\* carbohydrate 0, equivalent 0 and the placeholder narrative, its doses
\* computed: those that are numbers all 0 except the correction dose.
C6_TimeoutOrUnavailableDegrades ==
  (/\ pc = "done"
   /\ loc.model \in {"timeout", "unavailable"}
   /\ \A i \in 1..Len(inserts) : i = 2 => inserts[i].ok) =>
    /\ res.ok
    /\ res.status = 200
    /\ res.carbo_g = Zero
    /\ res.pg_cho_equiv_g = Zero
    /\ \/ res.detalhes_html = "nao_foi_possivel"
       \/ res.detalhes_html = "detalhes_html" /\ loc.detalhes_html = Indisponivel
    /\ loc.dosed
    /\ IsFinite(loc.doses.doseCho) => loc.doses.doseCho = Zero
    /\ IsFinite(loc.doses.dosePg) => loc.doses.dosePg = Zero
    /\ loc.doses.doseCor
         = MathMax(Zero, Div(Sub(req.glicemia.v, targetOf(cfgRaw)), isfOf(cfgRaw)))

\* C7: a request issues at most two inserts, the first with the narrative
\* and, only after the first failed, one retry without it; when the retry
\* fails too the response is an error, never a success.
C7_OneRetryThenError ==
  /\ Len(inserts) <= 2
  /\ Len(inserts) >= 1 => inserts[1].narrative
  /\ Len(inserts) = 2 => ~inserts[1].ok /\ ~inserts[2].narrative
  /\ (pc = "done" /\ Len(inserts) = 2 /\ ~inserts[2].ok)
       => ~res.ok /\ res.status >= 400

\* C8: pickFromPre of a well-formed data block returns, for each field, the
\* number held by the first alias of the list that carries one, unchanged,
\* 0 when no alias carries one, and the summary of the block.
C8_PickFromPreReturnsBlockValues ==
  pc = "pickFromPre" /\ arg.pre = "ok" =>
    /\ ret.carbo_g = FirstValue(arg.j, carboKeys)
    /\ ret.pg_cho_equiv_g = FirstValue(arg.j, pgKeys)
    /\ ret.resumo = IF HasKey(arg.j, "resumo") THEN GetKey(arg.j, "resumo").s ELSE <<>>

\* C9: num, parseNum and numBR return a finite number n unchanged, and
\* return the same value when the result is parsed again.
C9_ParserIdempotentOnNumbers ==
  arg.t = "num" /\ IsFinite(arg.v) =>
    /\ Len(ret) >= 1 => ret[1] = arg.v
    /\ Len(ret) >= 2 => ret[2] = ret[1]

C12_BlockEquivalentIsPersistedEquivalent ==
  \A i \in 1..Len(refeicoes) :
    (loc.model = "answer" /\ res.ok /\ loc.detalhes_html.pre = "ok") =>
      /\ HasKey(loc.detalhes_html.j, "pg_cho_equiv_g")
      /\ GetKey(loc.detalhes_html.j, "pg_cho_equiv_g")
           = JsonNum(toFixed1(refeicoes[i].pg_cho_equiv_g))

\* C15: when the profile holds no pct_cal_pf, the prompt, the fallback
\* computation and the breakdown / data-block patch of a request all use
\* 100 percent.
C15_MissingPercentDefaultsTo100 ==
  (loc.model = "answer" /\ cfgRaw.pct_cal_pf = JNull) =>
    /\ pgPct(cfgRaw) = Int2(100)
    /\ Mul(loc.percent, Int2(100)) = Int2(100)
    /\ loc.protPct = Int2(100)

\* C19: every persisted entry has doses that are finite integers >= 0 and
\* carbohydrate and protein+fat equivalent grams >= 0.
C19_PersistedValuesNonNegative ==
  \A i \in 1..Len(refeicoes) :
    /\ IsInteger(refeicoes[i].dose_rapida_total)
    /\ Le(Zero, refeicoes[i].dose_rapida_total)
    /\ IsInteger(refeicoes[i].dose_regular_pg)
    /\ Le(Zero, refeicoes[i].dose_regular_pg)
    /\ Le(Zero, refeicoes[i].cho_total_g)
    /\ Le(Zero, refeicoes[i].pg_cho_equiv_g)

\* C16: the model is called at most once per request (the wait is entered
\* only from the settings stage, which is never entered again), a request
\* waiting for the model eventually ends with a response, and a response
\* once sent is never replaced by another.
C16_ModelWaitEndsWithOneResponse ==
  /\ (pc = "model") ~> (pc = "done" /\ res.status # 0)
  /\ [][pc' = "model" /\ pc # "model" => pc = "cfg" /\ loc.model = "none"]_vars
  /\ [][pc' = "cfg" => pc = "idle"]_vars
  /\ [][res.status # 0 => res' = res /\ pc' = "done"]_vars

\* C16, its case: the timer fired and the request has answered
C16_Witness ==
  /\ pc = "done"
  /\ loc.model = "timeout"
  /\ res.status \in {200, 504}

-----------------------------------------------------------------------------
(* DELETE /api/refeicoes/:id, one request after another.  Here req is      *)
(* [id, userId], refeicoes holds the rows as [id, user_id] and ret is the  *)
(* row the select returned, if any.                                        *)

MaxId == 3

U1 == <<"u", "1">>
U2 == <<"u", "2">>

\* s.trim()
RECURSIVE trimStart(_)
trimStart(s) == IF s # <<>> /\ Head(s) = " " THEN trimStart(Tail(s)) ELSE s

RECURSIVE trimEnd(_)
trimEnd(s) ==
  IF s # <<>> /\ s[Len(s)] = " " THEN trimEnd(SubSeq(s, 1, Len(s) - 1)) ELSE s

trim(s) == trimEnd(trimStart(s))

\* the userId of the query string: absent, empty, or a text
DeleteUserIds ==
  { JNull, JStr(<<>>), JStr(U1), JStr(U2), JStr(<<" ">> \o U1), JStr(U2 \o <<" ">>) }

\* the tables of rows with ids among 1..MaxId
DeleteStores ==
  { SelectSeq([i \in 1..MaxId |-> [id |-> i, user_id |-> JStr(owner[i])]],
              LAMBDA r : r.id \in present) :
      present \in SUBSET (1..MaxId), owner \in [1..MaxId -> {U1, U2}] }

DeleteInit ==
  /\ openai = FALSE
  /\ pc = "idle"
  /\ req = [id |-> 0, userId |-> JNull]
  /\ cfgRaw = NoCfg
  /\ loc = NoLoc
  /\ refeicoes \in DeleteStores
  /\ inserts = <<>>
  /\ res = NoRes
  /\ arg = JNull
  /\ ret = <<>>

\* a scan of the table that stops at the first row, whatever its id
rowsFirst(id) == IF refeicoes = <<>> THEN <<>> ELSE <<refeicoes[1]>>

\* the rows .eq("id", id) selects
rowsWithId(id) == SelectSeq(refeicoes, LAMBDA r : r.id = id)

\* (row.user_id || "").trim() !== (userId || "").trim()
notOwner(row, userId) ==
  trim(JString(Or2(row.user_id, JStr(<<>>)))) # trim(JString(Or2(userId, JStr(<<>>))))

\* the request arrives: without a userId it is refused
DeleteReceive ==
  /\ pc = "idle"
  /\ \E id \in 1..MaxId, u \in DeleteUserIds :
       /\ req' = [id |-> id, userId |-> u]
       /\ IF ~Truthy(u)
          THEN pc' = "done" /\ res' = ErrorRes(400)
          ELSE pc' = "select" /\ res' = res
  /\ UNCHANGED <<openai, cfgRaw, loc, refeicoes, inserts, arg, ret>>

\* the select returns: no row, a row of another user, or the owner's row
DeleteSelect ==
  /\ pc = "select"
  /\ ret' = rowsWithId(req.id)
  /\ IF ret' = <<>>
     THEN pc' = "done" /\ res' = ErrorRes(404)
     ELSE IF notOwner(ret'[1], req.userId)
          THEN pc' = "done" /\ res' = ErrorRes(403)
          ELSE pc' = "delete" /\ res' = res
  /\ UNCHANGED <<openai, req, cfgRaw, loc, refeicoes, inserts, arg>>

\* the select fails with an error other than PGRST116: throw eSel
DeleteSelectFail ==
  /\ pc = "select"
  /\ pc' = "done"
  /\ res' = ErrorRes(500)
  /\ UNCHANGED <<openai, req, cfgRaw, loc, refeicoes, inserts, arg, ret>>

\* delete().eq("id", id) succeeds
DeleteRow ==
  /\ pc = "delete"
  /\ refeicoes' = SelectSeq(refeicoes, LAMBDA r : r.id # req.id)
  /\ res' = [NoRes EXCEPT !.status = 200, !.ok = TRUE]
  /\ pc' = "done"
  /\ UNCHANGED <<openai, req, cfgRaw, loc, inserts, arg, ret>>

\* the delete fails: throw eDel
DeleteRowFail ==
  /\ pc = "delete"
  /\ pc' = "done"
  /\ res' = ErrorRes(500)
  /\ UNCHANGED <<openai, req, cfgRaw, loc, refeicoes, inserts, arg, ret>>

\* the response is sent; the next request may arrive
DeleteEnd ==
  /\ pc = "done"
  /\ pc' = "idle"
  /\ res' = NoRes
  /\ ret' = <<>>
  /\ UNCHANGED <<openai, req, cfgRaw, loc, refeicoes, inserts, arg>>

DeleteNext ==
  \/ DeleteReceive
  \/ DeleteSelect
  \/ DeleteSelectFail
  \/ DeleteRow
  \/ DeleteRowFail
  \/ DeleteEnd

SpecDelete == DeleteInit /\ [][DeleteNext]_vars

\* C17, as amended: a row leaves the table only in a step of a request for
\* its id whose userId, trimmed of surrounding blanks, is the row's user_id;
\* a request of another user ends with 403 and one for an absent id with
\* 404 (or with 500 when the store fails), the table unchanged.
C17_DeletedOnlyByTrimmedOwner ==
  /\ [][\A i \in 1..Len(refeicoes) :
          (\A k \in 1..Len(refeicoes') : refeicoes'[k] # refeicoes[i]) =>
            /\ req.id = refeicoes[i].id
            /\ req.userId.t = "str"
            /\ trim(req.userId.s) = trim(refeicoes[i].user_id.s)]_vars
  /\ [][(pc = "select" /\ pc' # "select") =>
          /\ (\A i \in 1..Len(refeicoes) : refeicoes[i].id # req.id)
               => res'.status \in {404, 500}
          /\ (\E i \in 1..Len(refeicoes) :
                 /\ refeicoes[i].id = req.id
                 /\ trim(req.userId.s) # trim(refeicoes[i].user_id.s))
               => res'.status \in {403, 500}]_vars
  /\ [][res'.status \in {400, 403, 404, 500} => refeicoes' = refeicoes]_vars

\* C17, its case: the owner's request has removed row 1 while another
\* user's row is still there
C17_Witness ==
  /\ pc = "done"
  /\ res.status = 200
  /\ req.id = 1
  /\ req.userId = JStr(U1)
  /\ refeicoes # <<>>
  /\ \A i \in 1..Len(refeicoes) : refeicoes[i].id # 1

\* C17, as stated: a row leaves the table only in a step of a request whose
\* userId equals the row's user_id, and a request with a different userId
\* ends with 403.
C17_DeletedOnlyByEqualUserId ==
  /\ [][\A i \in 1..Len(refeicoes) :
          (\A k \in 1..Len(refeicoes') : refeicoes'[k] # refeicoes[i]) =>
            req.userId = refeicoes[i].user_id]_vars
  /\ [][(/\ pc = "select"
          /\ pc' # "select"
          /\ \E i \in 1..Len(refeicoes) :
               refeicoes[i].id = req.id /\ req.userId # refeicoes[i].user_id)
          => res'.status \in {403, 500}]_vars

-----------------------------------------------------------------------------
(* Two POST /api/chat-image requests running side by side, from the upload *)
(* of the photo on.  Here req[p] is the request of handler p, pc[p] its    *)
(* position, loc[p] its foto_url (<<>> for null, else <<key>>), arg the    *)
(* value of Date.now(), ret the objects of the bucket "refeicoes" as       *)
(* [key, buf] pairs, refeicoes the inserted rows and inserts[i] the        *)
(* handler that inserted row i.                                            *)

MaxClock == 2

Handlers == {1, 2}

\* the requests: handler p sends its own photo
UploadReqs ==
  { [p \in Handlers |-> [userId |-> user[p], buf |-> p, ext |-> ext[p]]] :
      user \in [Handlers -> {U1, U2}], ext \in [Handlers -> {"jpeg", "png"}] }

UploadInit ==
  /\ openai = TRUE
  /\ pc = [p \in Handlers |-> "upload"]
  /\ req \in UploadReqs
  /\ cfgRaw = NoCfg
  /\ loc = [p \in Handlers |-> <<>>]
  /\ refeicoes = <<>>
  /\ inserts = <<>>
  /\ res = NoRes
  /\ arg = 0
  /\ ret = {}

\* `refeicoes/${userId}/${Date.now()}.${p.ext}`
photoKey(userId, t, ext) == [userId |-> userId, t |-> t, ext |-> ext]

\* storage.upload(key, buf, {upsert: true}): the object under key is replaced
upsert(bucket, key, buf) ==
  {o \in bucket : o.key # key} \cup {[key |-> key, buf |-> buf]}

\* the clock of the server moves on
UploadTick ==
  /\ arg < MaxClock
  /\ arg' = arg + 1
  /\ UNCHANGED <<openai, pc, req, cfgRaw, loc, refeicoes, inserts, res, ret>>

\* uploadMealPhoto succeeds and returns the public URL of its key
UploadPhoto(p) ==
  /\ pc[p] = "upload"
  /\ \E key \in {photoKey(req[p].userId, arg, req[p].ext)} :
       /\ ret' = upsert(ret, key, req[p].buf)
       /\ loc' = [loc EXCEPT ![p] = <<key>>]
  /\ pc' = [pc EXCEPT ![p] = "insert"]
  /\ UNCHANGED <<openai, req, cfgRaw, refeicoes, inserts, res, arg>>

\* uploadMealPhoto throws: the handler goes on with foto_url = null
UploadPhotoFail(p) ==
  /\ pc[p] = "upload"
  /\ pc' = [pc EXCEPT ![p] = "insert"]
  /\ UNCHANGED <<openai, req, cfgRaw, loc, refeicoes, inserts, res, arg, ret>>

\* the row is inserted with the handler's foto_url
UploadInsert(p) ==
  /\ pc[p] = "insert"
  /\ refeicoes' = Append(refeicoes, [user_id |-> req[p].userId, foto_url |-> loc[p]])
  /\ inserts' = Append(inserts, p)
  /\ pc' = [pc EXCEPT ![p] = "done"]
  /\ UNCHANGED <<openai, req, cfgRaw, loc, res, arg, ret>>

UploadNext ==
  \/ UploadTick
  \/ \E p \in Handlers : UploadPhoto(p)
  \/ \E p \in Handlers : UploadPhotoFail(p)
  \/ \E p \in Handlers : UploadInsert(p)

SpecUpload == UploadInit /\ [][UploadNext]_vars

\* C20: whatever the interleaving of the two requests, the object a
\* persisted row's foto_url names holds the photo that the request which
\* inserted the row uploaded.
C20_FotoUrlNamesOwnPhoto ==
  \A i \in 1..Len(refeicoes) :
    refeicoes[i].foto_url # <<>> =>
      \E o \in ret : o.key = refeicoes[i].foto_url[1] /\ o.buf = req[inserts[i]].buf

-----------------------------------------------------------------------------
(* The narrative patchers on the text of the markup.  The text is a        *)
(* sequence of tokens [k, s, v]: a tag, a run of white space, a label (a   *)
(* text ending in ":"), a text that starts with a word character, a        *)
(* symbol, a dose "vU", the computed lines of a breakdown ending in        *)
(* "<b>v g CHO</b>", or the <pre> block carrying pg_cho_equiv_g = v.       *)

Tok(k, s, v) == [k |-> k, s |-> s, v |-> v]
Tag(n) == Tok("tag", <<n>>, Zero)
Ws(chars) == Tok("ws", chars, Zero)
Lbl(n) == Tok("lbl", <<n>>, Zero)
Txt(n) == Tok("txt", <<n>>, Zero)
Sym(n) == Tok("sym", <<n>>, Zero)
Dose(v) == Tok("dose", <<"U">>, v)
Calc(v) == Tok("calc", <<"g CHO">>, v)
PreTok(state, v) == Tok("pre", <<state>>, v)

\* \s* from position i: the first position that is not white space
RECURSIVE skipWs(_, _)
skipWs(d, i) == IF i <= Len(d) /\ d[i].k = "ws" THEN skipWs(d, i + 1) ELSE i

isTok(d, i, t) == i >= 1 /\ i <= Len(d) /\ d[i] = t

\* \b after the ":" of a label: the next character is a word character
wordStartAt(d, i) == i <= Len(d) /\ d[i].k \in {"txt", "dose"}

\* [\s\S]*?<\/li> from position i: the position of the first </li>, or 0
RECURSIVE nextCloseLi(_, _)
nextCloseLi(d, i) ==
  IF i > Len(d) THEN 0
  ELSE IF d[i] = Tag("</li>") THEN i ELSE nextCloseLi(d, i + 1)

\* <b>LABEL[\b][\s\S]*?<\/li> at position j: the position of its </li>, or 0
liCloseFromB(d, j, lbl, wordAfter) ==
  IF /\ isTok(d, j, Tag("<b>"))
     /\ isTok(d, j + 1, Lbl(lbl))
     /\ (wordAfter => wordStartAt(d, j + 2))
  THEN nextCloseLi(d, j + 2)
  ELSE 0

\* <li>\s*<b>LABEL[\b][\s\S]*?<\/li> at position i: the position of its </li>, or 0
liCloseAt(d, i, lbl, wordAfter) ==
  IF isTok(d, i, Tag("<li>")) THEN liCloseFromB(d, skipWs(d, i + 1), lbl, wordAfter) ELSE 0

\* .replace(/<li>\s*<b>LABEL[\b][\s\S]*?<\/li>\s*/gi, "") from position i on
RECURSIVE removeLis(_, _, _, _)
removeLis(d, i, lbl, wordAfter) ==
  IF i > Len(d) THEN <<>>
  ELSE IF liCloseAt(d, i, lbl, wordAfter) # 0
       THEN removeLis(d, skipWs(d, liCloseAt(d, i, lbl, wordAfter) + 1), lbl, wordAfter)
       ELSE <<d[i]>> \o removeLis(d, i + 1, lbl, wordAfter)

stripExtraPgLis(html) ==
  removeLis(
    removeLis(
      removeLis(
        removeLis(html, 1, "Proteinas:", TRUE),
        1, "Gorduras:", TRUE),
      1, "Proteinas + Gorduras (equivalente CHO):", FALSE),
    1, "Proteinas + Gorduras:", FALSE)

\* the one block patchPgTotals builds
bloco(choEq) ==
  << Tag("<li>"), Tag("<b>"), Lbl("Proteinas + Gorduras:"), Tag("</b>"), Tag("<br>"),
     Calc(toFixed1(choEq)), Tag("</li>") >>

\* the first position from i where <li>\s*<b>Carboidratos:\b[\s\S]*?<\/li> matches, or 0
RECURSIVE findCarbo(_, _)
findCarbo(d, i) ==
  IF i > Len(d) THEN 0
  ELSE IF liCloseAt(d, i, "Carboidratos:", TRUE) # 0 THEN i ELSE findCarbo(d, i + 1)

\* [^<]*Totais[^<]*<\/h3> from position i: the position of </h3>, or 0;
\* seen tells whether "Totais" was met
RECURSIVE headingClose(_, _, _)
headingClose(d, i, seen) ==
  IF i > Len(d) THEN 0
  ELSE IF d[i] = Tag("</h3>") THEN (IF seen THEN i ELSE 0)
  ELSE IF d[i].k \in {"tag", "calc", "pre"} THEN 0
  ELSE headingClose(d, i + 1, seen \/ d[i] = Txt("Totais"))

\* <h3>[^<]*Totais[^<]*<\/h3>\s*<ul[^>]*> at position i: the position of <ul>, or 0
totaisUlFrom(d, h) ==
  IF h # 0 /\ isTok(d, skipWs(d, h + 1), Tag("<ul>")) THEN skipWs(d, h + 1) ELSE 0

totaisUlAt(d, i) ==
  IF isTok(d, i, Tag("<h3>")) THEN totaisUlFrom(d, headingClose(d, i + 1, FALSE)) ELSE 0

RECURSIVE findTotais(_, _)
findTotais(d, i) ==
  IF i > Len(d) THEN 0
  ELSE IF totaisUlAt(d, i) # 0 THEN i ELSE findTotais(d, i + 1)

\* d with the tokens ins put after position at (unchanged when at = 0)
insertAfter(d, at, ins) ==
  IF at = 0 THEN d ELSE SubSeq(d, 1, at) \o ins \o SubSeq(d, at + 1, Len(d))

\* steps 3 of patchPgTotals on the stripped text
insertBloco(out, choEq) ==
  IF findCarbo(out, 1) # 0
  THEN insertAfter(out, liCloseAt(out, findCarbo(out, 1), "Carboidratos:", TRUE),
                   <<Ws(<<"\n">>)>> \o bloco(choEq))
  ELSE insertAfter(out, totaisUlAt(out, findTotais(out, 1)),
                   <<Ws(<<"\n">>)>> \o bloco(choEq))

patchPgTotals(html, choEq) == insertBloco(stripExtraPgLis(html), choEq)

\* the <pre> block with pg_cho_equiv_g = Number(pg_cho_equiv_g.toFixed(1)),
\* the first one only, and only when its JSON parses
RECURSIVE patchPre(_, _, _)
patchPre(d, i, choEq) ==
  IF i > Len(d) THEN d
  ELSE IF d[i].k = "pre"
       THEN (IF d[i].s = <<"ok">> THEN [d EXCEPT ![i].v = toFixed1(choEq)] ELSE d)
       ELSE patchPre(d, i + 1, choEq)

\* enforcePgRule on the text: strip, patchPgTotals, the <pre> block
enforcePgRuleText(html, choEq) ==
  patchPre(patchPgTotals(stripExtraPgLis(html), choEq), 1, choEq)

\* [^<]*?\d+(?:[.,]\d+)?U from position i: the position of the dose, or 0
RECURSIVE doseInText(_, _)
doseInText(d, i) ==
  IF i > Len(d) THEN 0
  ELSE IF d[i].k = "dose" THEN i
  ELSE IF d[i].k \in {"tag", "calc", "pre"} THEN 0
  ELSE doseInText(d, i + 1)

\* \s*<\/b>\s*\d+(?:[.,]\d+)?U from position i: the position of the dose, or 0
doseAfterFrom(d, j) ==
  IF isTok(d, j, Tag("</b>")) /\ skipWs(d, j + 1) <= Len(d) /\ d[skipWs(d, j + 1)].k = "dose"
  THEN skipWs(d, j + 1)
  ELSE 0

doseAfterB(d, i) == doseAfterFrom(d, skipWs(d, i))

\* the dose the pattern of number n names when it matches at position i, or 0
dosePatternAt(d, i, n) ==
  IF ~(isTok(d, i, Tag("<li>")) /\ isTok(d, i + 1, Tag("<b>"))) THEN 0
  ELSE IF n = 1 /\ isTok(d, i + 2, Lbl("Insulina R (proteina/gordura):"))
       THEN doseInText(d, i + 3)
  ELSE IF n = 2 /\ isTok(d, i + 2, Lbl("Insulina R:"))
       THEN doseAfterB(d, i + 3)
  ELSE IF n = 3 /\ isTok(d, i + 2, Lbl("Insulina Fiasp em 2-3 horas:"))
       THEN doseAfterB(d, i + 3)
  ELSE 0

RECURSIVE findDose(_, _, _)
findDose(d, i, n) ==
  IF i > Len(d) THEN 0
  ELSE IF dosePatternAt(d, i, n) # 0 THEN dosePatternAt(d, i, n) ELSE findDose(d, i + 1, n)

\* out.replace(pattern n, `$1${regU}U`): the first match only
replaceDose(d, n, regU) ==
  IF findDose(d, 1, n) = 0 THEN d ELSE [d EXCEPT ![findDose(d, 1, n)] = Dose(Int2(regU))]

patchRegularDose(html, regU) ==
  replaceDose(replaceDose(replaceDose(html, 1, regU), 2, regU), 3, regU)

\* <li><b>Total bolus:[\s\S]*?<\/li> at position i: the position of its </li>, or 0
totalCloseAt(d, i) ==
  IF isTok(d, i, Tag("<li>")) THEN liCloseFromB(d, i + 1, "Total bolus:", FALSE) ELSE 0

RECURSIVE findTotal(_, _)
findTotal(d, i) ==
  IF i > Len(d) THEN 0
  ELSE IF totalCloseAt(d, i) # 0 THEN i ELSE findTotal(d, i + 1)

\* `<li><b>Total bolus:</b> ${rapidU}U + ${regU}U = <b>${total}U</b></li>`
totalLi(rapidU, regU) ==
  << Tag("<li>"), Tag("<b>"), Lbl("Total bolus:"), Tag("</b>"), Ws(<<" ">>),
     Dose(Int2(rapidU)), Sym("+"), Dose(Int2(regU)), Sym("="),
     Tag("<b>"), Dose(Int2(rapidU + regU)), Tag("</b>"), Tag("</li>") >>

replaceTotal(d, at, li) ==
  IF at = 0 THEN d
  ELSE SubSeq(d, 1, at - 1) \o li \o SubSeq(d, totalCloseAt(d, at) + 1, Len(d))

patchTotalBolus(html, rapidU, regU) ==
  replaceTotal(html, findTotal(html, 1), totalLi(rapidU, regU))

\* the handler's three steps on the text
reconcile(html, choEq, rapidU, regU) ==
  patchTotalBolus(patchRegularDose(enforcePgRuleText(html, choEq), regU), rapidU, regU)

-----------------------------------------------------------------------------
(* The reconciliation applied to one output of the model and then to its   *)
(* own result.  arg is [html, strat, mandated, choEq, rapidU, regU] and    *)
(* ret the results so far.                                                 *)

MaxPatch == 3

Nl == Ws(<<"\n">>)
Indent == Ws(<<"\n", " ", " ">>)

\* the values the model wrote: EQ_PG, P,U, QU, SU, TU
ModelEq == Rat(9, 2)
ModelP == Rat(9, 2)
ModelQ == Int2(9)
ModelS == Int2(6)
ModelT == Int2(15)

carboLi ==
  << Tag("<li>"), Tag("<b>"), Lbl("Carboidratos:"), Tag("</b>"), Ws(<<" ">>),
     Txt("45 g CHO"), Tag("</li>") >>

carboLiGlued ==
  << Tag("<li>"), Tag("<b>"), Lbl("Carboidratos:"), Txt("45 g CHO"), Tag("</b>"),
     Tag("</li>") >>

modelPgLi ==
  << Tag("<li>"), Indent, Tag("<b>"), Lbl("Proteinas + Gorduras:"), Tag("</b>"),
     Tag("<br>"), Calc(ModelEq), Tag("</li>") >>

totaisHead == << Tag("<h3>"), Txt("Totais"), Tag("</h3>"), Nl, Tag("<ul>") >>

extraLi(lbl) ==
  << Tag("<li>"), Tag("<b>"), Lbl(lbl), Tag("</b>"), Ws(<<" ">>), Txt("30 g"),
     Tag("</li>") >>

extraLiGlued(lbl) ==
  << Tag("<li>"), Tag("<b>"), Lbl(lbl), Txt("30 g"), Tag("</b>"), Tag("</li>") >>

\* the Totais section as the prompt mandates it, and as models have written it
Totais(t) ==
  IF t = "mandated"
  THEN totaisHead \o <<Indent>> \o carboLi \o <<Indent>> \o modelPgLi \o <<Nl, Tag("</ul>")>>
  ELSE IF t = "flat"
  THEN totaisHead \o <<Nl>> \o carboLi \o <<Nl>> \o modelPgLi \o <<Nl, Tag("</ul>")>>
  ELSE IF t = "extra"
  THEN totaisHead \o <<Nl>> \o carboLi \o <<Nl>> \o extraLi("Proteinas:") \o <<Nl>>
         \o extraLi("Gorduras:") \o <<Nl>> \o modelPgLi \o <<Nl, Tag("</ul>")>>
  ELSE IF t = "glued"
  THEN totaisHead \o <<Nl>> \o carboLi \o <<Nl>> \o extraLiGlued("Proteinas:") \o <<Nl>>
         \o extraLiGlued("Gorduras:") \o <<Nl>>
         \o extraLi("Proteinas + Gorduras (equivalente CHO):") \o <<Nl, Tag("</ul>")>>
  ELSE IF t = "carboGlued"
  THEN totaisHead \o carboLiGlued \o <<Nl>> \o modelPgLi \o <<Tag("</ul>")>>
  ELSE IF t = "noHeading"
  THEN <<Tag("<ul>"), Nl>> \o carboLi \o <<Nl>> \o modelPgLi \o <<Nl, Tag("</ul>")>>
  ELSE <<Tag("<ul>")>> \o carboLi \o <<Tag("</ul>")>>

TotaisKinds == {"mandated", "flat", "extra", "glued", "carboGlued", "noHeading", "bare"}

totalLiInsulina ==
  << Tag("<li>"), Tag("<b>"), Lbl("Total bolus:"), Tag("</b>"), Ws(<<" ">>),
     Txt("Fiasp + Regular"), Sym("="), Tag("<b>"), Dose(ModelT), Tag("</b>"), Tag("</li>") >>

doseCalc == << Ws(<<" ">>), Txt("EQ_PG / icr"), Sym("="), Dose(ModelP), Sym("=>"),
               Tag("<b>"), Dose(ModelQ), Tag("</b>"), Tag("</li>") >>

\* the Insulina section
Insulina(t) ==
  IF t = "regular_now"
  THEN << Tag("<h3>"), Txt("Insulina"), Tag("</h3>"), Nl, Tag("<ul>"), Nl,
          Tag("<li>"), Tag("<b>"), Lbl("Insulina R (proteina/gordura):"), Tag("</b>") >>
         \o doseCalc \o <<Nl>> \o totalLiInsulina \o <<Nl, Tag("</ul>")>>
  ELSE IF t = "split_rapid"
  THEN << Tag("<h3>"), Txt("Insulina"), Tag("</h3>"), Nl, Tag("<ul>"), Nl,
          Tag("<li>"), Tag("<i>"),
          Lbl("Proteina/gordura sera aplicada com insulina Fiasp em 2-3 horas:"),
          Tag("</i>") >>
         \o doseCalc \o <<Nl>> \o totalLiInsulina \o <<Nl, Tag("</ul>")>>
  ELSE IF t = "inline"
  THEN << Tag("<ul>"), Tag("<li>"), Tag("<b>"), Lbl("Insulina R (proteina/gordura):"),
          Ws(<<" ">>), Dose(ModelQ), Tag("</b>"), Tag("</li>") >>
         \o totalLiInsulina \o <<Tag("</ul>")>>
  ELSE IF t = "deferred"
  THEN << Tag("<ul>"), Tag("<li>"), Tag("<b>"), Lbl("Insulina Fiasp em 2-3 horas:"),
          Tag("</b>"), Ws(<<" ">>), Dose(ModelQ), Tag("</li>") >>
         \o totalLiInsulina \o <<Tag("</ul>")>>
  ELSE <<>>

InsulinaKinds == {"regular_now", "split_rapid", "inline", "deferred", "absent"}

\* the Resumo da dose section
Resumo(t) ==
  IF t = "absent" THEN <<>>
  ELSE << Tag("<h3>"), Txt("Resumo da dose"), Tag("</h3>"), Nl, Tag("<ul>"), Nl,
          Tag("<li>"), Tag("<b>"), Lbl("Fiasp:"), Tag("</b>"), Ws(<<" ">>),
          Dose(ModelS), Tag("</li>"), Nl,
          Tag("<li>"), Tag("<b>"),
          Lbl(IF t = "regular_now" THEN "Insulina R:" ELSE "Fiasp (p/g em 2-3h):"),
          Tag("</b>"), Ws(<<" ">>), Dose(ModelQ), Tag("</li>"), Nl,
          Tag("<li>"), Tag("<b>"), Lbl("Total bolus:"), Tag("</b>"), Ws(<<" ">>),
          Dose(ModelS), Sym("+"), Dose(ModelQ), Sym("="),
          Tag("<b>"), Dose(ModelT), Tag("</b>"), Tag("</li>"), Nl, Tag("</ul>") >>

ResumoKinds == {"regular_now", "split_rapid", "absent"}

\* the units the calculator gives: r0(dosePg), 0 under split_rapid
RegularUnits(strat) == IF strat = "regular_now" THEN {4, 9} ELSE {0}

PatchInputs ==
  { [html |-> Totais(t) \o Insulina(i) \o Resumo(r) \o <<PreTok(p, ModelEq)>>,
     strat |-> st,
     mandated |-> (t = "mandated" /\ i = st /\ r = st /\ p = "ok"),
     choEq |-> c, rapidU |-> ra, regU |-> re] :
      t \in TotaisKinds, i \in InsulinaKinds, r \in ResumoKinds, p \in {"ok", "bad"},
      st \in {"regular_now", "split_rapid"}, c \in {Rat(9, 2), Rat(11, 20)},
      ra \in {6}, re \in {0, 4, 9} }

PatchArgs == { a \in PatchInputs : a.regU \in RegularUnits(a.strat) }

PatchInit ==
  /\ openai = FALSE
  /\ HandlerInit
  /\ arg \in PatchArgs
  /\ ret = <<>>

\* the model's text is reconciled
ApplyReconcile ==
  /\ ret = <<>>
  /\ ret' = <<reconcile(arg.html, arg.choEq, arg.rapidU, arg.regU)>>
  /\ UNCHANGED <<openai, pc, req, cfgRaw, loc, refeicoes, inserts, res, arg>>

\* the reconciled text is reconciled again with the same values
ApplyReconcileAgain ==
  /\ ret # <<>>
  /\ Len(ret) < MaxPatch
  /\ ret' = Append(ret, reconcile(ret[Len(ret)], arg.choEq, arg.rapidU, arg.regU))
  /\ UNCHANGED <<openai, pc, req, cfgRaw, loc, refeicoes, inserts, res, arg>>

PatchNext == ApplyReconcile \/ ApplyReconcileAgain

SpecPatch == PatchInit /\ [][PatchNext]_vars

-----------------------------------------------------------------------------
(* What the reconciled text shows.                                         *)

\* the label of the <li> that starts at position i, or "" when there is none
liLabelAt(d, i) ==
  IF isTok(d, i, Tag("<li>")) /\ skipWs(d, i + 1) + 1 <= Len(d)
       /\ d[skipWs(d, i + 1)].k = "tag" /\ d[skipWs(d, i + 1) + 1].k = "lbl"
  THEN d[skipWs(d, i + 1) + 1].s[1]
  ELSE ""

\* the last dose written from position j down to position i: the value shown
RECURSIVE lastDose(_, _, _)
lastDose(d, i, j) ==
  IF j < i THEN [n |-> 0, d |-> 0]
  ELSE IF d[j].k = "dose" THEN d[j].v ELSE lastDose(d, i, j - 1)

shownUnits(d, i) == lastDose(d, i, nextCloseLi(d, i))

RegularLabels ==
  { "Insulina R (proteina/gordura):", "Insulina R:",
    "Proteina/gordura sera aplicada com insulina Fiasp em 2-3 horas:",
    "Fiasp (p/g em 2-3h):" }

BreakdownLabels ==
  { "Proteinas:", "Gorduras:", "Proteinas + Gorduras (equivalente CHO):",
    "Proteinas + Gorduras:" }

\* the positions where a protein/fat breakdown item starts
breakdownItems(d) == { i \in 1..Len(d) : liLabelAt(d, i) \in BreakdownLabels }

\* the labels of the breakdown items, in the order of the text
breakdownLabels(d) ==
  SelectSeq([i \in 1..Len(d) |-> liLabelAt(d, i)], LAMBDA l : l \in BreakdownLabels)

noInsertAnchor(d) == findCarbo(d, 1) = 0 /\ findTotais(d, 1) = 0
noDoseAnchor(d) == \A n \in 1..3 : findDose(d, 1, n) = 0
noTotalAnchor(d) == findTotal(d, 1) = 0

withoutPre(d) == SelectSeq(d, LAMBDA t : t.k # "pre")

\* C11: once a text in the mandated format is reconciled, every regular or
\* deferred dose line shows dose_regular_pg and every total-bolus line shows
\* dose_rapida_total + dose_regular_pg, in the Insulina section and in the
\* Resumo section, under both strategies.
C11_DoseLinesShowCalculatorValues ==
  (ret # <<>> /\ arg.mandated) =>
    \A i \in 1..Len(ret[1]) :
      /\ liLabelAt(ret[1], i) \in RegularLabels
           => shownUnits(ret[1], i) = Int2(arg.regU)
      /\ liLabelAt(ret[1], i) = "Total bolus:"
           => shownUnits(ret[1], i) = Int2(arg.rapidU + arg.regU)

\* C13: the reconciled text holds exactly one protein/fat breakdown item,
\* whatever the model wrote.
C13_ExactlyOneBreakdownBlock ==
  ret # <<>> => Cardinality(breakdownItems(ret[1])) = 1

\* C14: reconciling a reconciled text with the same values returns it
\* unchanged.
C14_ReconcileIsIdempotent ==
  Len(ret) >= 2 => ret[2] = ret[1]

\* C18: where the text has no place to insert the breakdown after, the
\* breakdown items the model wrote stay as they were; and where it also has
\* no regular-dose line and no total-bolus item, the text outside the <pre>
\* block is returned as the model wrote it.
C18_AbsentAnchorLeavesTextUnchanged ==
  (ret # <<>> /\ noInsertAnchor(arg.html)) =>
    /\ breakdownLabels(ret[1]) = breakdownLabels(arg.html)
    /\ (noDoseAnchor(arg.html) /\ noTotalAnchor(arg.html))
         => withoutPre(ret[1]) = withoutPre(arg.html)

=============================================================================
